---- MODULE Spec2Model ----
(***************************************************************************)
(* Model of src/models/face_detection_model.py: the module-level DeepFace  *)
(* import, FaceDetectionModel.__init__, _ensure_models_loaded,             *)
(* _detect_faces_opencv and detect_faces.                                  *)
(*                                                                         *)
(* Conventions                                                             *)
(*  - Confidence scores are integers in hundredths (0.7 is 70, 1.0 is 100).*)
(*  - Coordinates produced by the learned detector are floats; they are    *)
(*    kept in half pixels (21 is 10.5 px) and int() truncates them.        *)
(*    Coordinates of the cascade detector are integer pixels.              *)
(*  - Python's None is the empty tuple <<>>, a value v is <<v>>.           *)
(*  - An image is its shape and its pixel content; drawing on an image     *)
(*    appends the drawing operation to its "drawn" sequence.               *)
(***************************************************************************)
EXTENDS Integers, Sequences, FiniteSets, TLC

VARIABLES
    pc,                      \* position of the single (synchronous) caller
    DEEPFACE_AVAILABLE,      \* module global, lines 8-13
    face_cascade,            \* TRUE: self.face_cascade is a classifier, FALSE: None
    torch_available,         \* self.torch_available
    emotion_model_loaded,    \* self.emotion_model_loaded
    age_gender_model_loaded, \* self.age_gender_model_loaded
    image,                   \* the caller's input buffer of the current call
    result_img,              \* the working copy that is drawn on
    face_data,               \* list of face_info records of the current call
    raw,                     \* what the invoked detector produced, before any filter
    boxes,                   \* local boxes of detect_faces
    scores,                  \* local scores of detect_faces
    i,                       \* loop index of "for i, box in enumerate(boxes)" (1-based)
    face_info,               \* the record under construction in the loop body
    log,                     \* external calls made during the current call
    probe,                   \* what each capability probe met at start-up
    prev,                    \* the previous call as its caller saw it (kept by
                             \* the specification that compares two calls)
    pc2                      \* position of a second caller of the same instance
                             \* ("off" where calls are serial)

vars == <<pc, DEEPFACE_AVAILABLE, face_cascade, torch_available,
          emotion_model_loaded, age_gender_model_loaded, image, result_img,
          face_data, raw, boxes, scores, i, face_info, log, probe, prev, pc2>>

capability == <<DEEPFACE_AVAILABLE, face_cascade, torch_available>>
flags      == <<emotion_model_loaded, age_gender_model_loaded>>
locals     == <<image, result_img, face_data, raw, boxes, scores, i, face_info, log>>
others     == <<probe, prev, pc2>>

-----------------------------------------------------------------------------
(* Bounds and input domains *)

MaxDet == 2   \* longest list of raw detections a detector returns

None == <<>>
Some(v) == <<v>>

ConfThreshold == 70    \* "> 0.7", line 105
MinFaceSize   == 20    \* "< 20", line 128
OpenCVScore   == 100   \* scores.append(1.0), line 76

\* Input images: shape and pixel content.
Images ==
    { [h |-> 100, w |-> 100, px |-> "a", drawn |-> <<>>],
      [h |-> 100, w |-> 120, px |-> "b", drawn |-> <<>>] }

\* Boxes of the learned detector, <<x1, y1, x2, y2>> in half pixels. The
\* detector is an opaque collaborator: its boxes satisfy x1 < x2 and y1 < y2
\* and are not negative, and one of them reaches beyond the narrower image.
TorchBoxes ==
    { <<20, 20, 180, 180>>,     \* (10,10)-(90,90)
      <<21, 20, 61, 180>>,      \* x from 10.5 to 30.5: int() gives 10..30
      <<20, 20, 50, 180>>,      \* 15 px wide
      <<200, 20, 320, 180>> }   \* x from 100 to 160: at or beyond the right edge

TorchScores == { 70, 71 }

\* Rectangles of the cascade detector, <<x, y, w, h>> in pixels.
CascadeRects ==
    { <<10, 10, 80, 80>>,
      <<30, 30, 20, 20>>,
      <<10, 10, 19, 80>>,
      <<10, 10, 80, 15>> }

MaxDetFew == 1   \* longest list of raw detections where two calls are compared
                 \* or run concurrently

\* The inputs of those specifications: fewer boxes, the same two scores.
FewBoxes == { <<20, 20, 180, 180>>, <<20, 20, 50, 180>> }

RECURSIVE SeqsUpTo(_, _)
SeqsUpTo(S, n) ==
    IF n = 0 THEN { <<>> }
    ELSE LET shorter == SeqsUpTo(S, n - 1)
         IN  shorter \cup { Append(s, x) : s \in { t \in shorter : Len(t) = n - 1 }, x \in S }

\* prediction[0] of the learned detector: parallel 'boxes' and 'scores'.
TorchPredictions ==
    SeqsUpTo([box : TorchBoxes, score : TorchScores], MaxDet)

FewPredictions ==
    SeqsUpTo([box : FewBoxes, score : TorchScores], MaxDetFew)

\* faces of detectMultiScale.
CascadeFaces == SeqsUpTo(CascadeRects, MaxDet)

-----------------------------------------------------------------------------
(* Pure helpers *)

\* int(x) for a float kept in half pixels: truncation toward zero.
IntOf(c) == IF c >= 0 THEN c \div 2 ELSE -((-c) \div 2)

\* map(int, box), line 122
IntBox(box) == <<IntOf(box[1]), IntOf(box[2]), IntOf(box[3]), IntOf(box[4])>>

\* Python/numpy slice normalisation of one bound against an axis of length n.
SliceBound(a, n) ==
    IF a < 0 THEN (IF a + n < 0 THEN 0 ELSE a + n)
    ELSE (IF a > n THEN n ELSE a)

\* len(axis[a:b]) for an axis of length n.
SliceLen(a, b, n) ==
    LET lo == SliceBound(a, n)
        hi == SliceBound(b, n)
    IN  IF hi > lo THEN hi - lo ELSE 0

\* face_img = image[y1:y2, x1:x2], line 125: the shape of the crop.
Crop(img, b) ==
    [rows |-> SliceLen(b[2], b[4], img.h), cols |-> SliceLen(b[1], b[3], img.w)]

TooSmallRowsOnly(crop) ==
    \/ crop.rows * crop.cols = 0
    \/ crop.rows < MinFaceSize

\* line 128
TooSmall(crop) ==
    \/ crop.rows * crop.cols = 0
    \/ crop.rows < MinFaceSize
    \/ crop.cols < MinFaceSize

KeepScoreAtThreshold(s) == s >= ConfThreshold

\* the mask "prediction[0]['scores'] > 0.7", lines 105-106
KeepScore(s) == s > ConfThreshold

\* lines 105-106: boxes and scores under the same mask
FilterPrediction(pred) == SelectSeq(pred, LAMBDA d : KeepScore(d.score))

\* _detect_faces_opencv, lines 71-78
DetectFacesOpenCV(faces) ==
    [k \in 1..Len(faces) |->
        [box   |-> <<faces[k][1], faces[k][2],
                     faces[k][1] + faces[k][3], faces[k][2] + faces[k][4]>>,
         score |-> OpenCVScore]]

SelectDetectorCascadeFirst(ta, fc) ==
    IF fc THEN "cascade" ELSE IF ta THEN "learned" ELSE "none"

SelectDetectorNoNoneCase(ta, fc) ==
    IF ta THEN "learned" ELSE "cascade"

\* the if/elif/else of lines 96-112
SelectDetector(ta, fc) ==
    IF ta THEN "learned" ELSE IF fc THEN "cascade" ELSE "none"

\* line 119-122: a box of the learned detector is a float tensor and int()
\* truncates it; a box of the cascade detector already holds integers.
PixelBox(box, isTensor) == IF isTensor THEN IntBox(box) ELSE box

\* line 133: float(scores[i]); the value is kept.
Confidence(s) == s

NeedsWarmupUnguarded(da, e, a) == ~e \/ ~a

NeedsWarmupBothPending(da, e, a) == da /\ ~e /\ ~a

\* lines 44-47 and 115: is a warm-up round run in this call?
NeedsWarmup(da, e, a) == da /\ (~e \/ ~a)

FlagAfterWarmupAssigned(flag, ok) == ok

\* lines 52-56 and 58-62: the flag after one warm-up attempt.
FlagAfterWarmup(flag, ok) == IF ok THEN TRUE ELSE flag

AfterEmotionWarmupOneTry(ok) == IF ok THEN "warm_age_gender" ELSE "loop"

\* lines 52-58: the emotion warm-up has its own try/except, so line 58 is
\* reached whether or not it raised.
AfterEmotionWarmup(ok) == "warm_age_gender"

RunsAnalysisAlways(loaded) == TRUE

\* lines 143 and 148: a group's per-face analysis runs only if its flag is set.
RunsAnalysis(loaded) == loaded

AppendFaceInFront(fd, info) == <<info>> \o fd

\* line 156
AppendFace(fd, info) == Append(fd, info)

OnAnalysisErrorAbort == "returned"

\* lines 142 and 153-154: an exception of the per-face analysis is caught inside
\* the loop body, and the body goes on at line 156.
OnAnalysisError == "append"

\* Python truthiness of an optional number / an optional string, lines 163-167.
TruthyNum(o) == o # None /\ o[1] # 0
TruthyStr(o) == o # None /\ o[1] # ""

\* lines 162-168: the fields the label text is made of, in the order written.
Label(info) ==
    [emotion |-> IF TruthyStr(info.emotion) THEN info.emotion ELSE None,
     age     |-> IF TruthyNum(info.age) THEN info.age ELSE None,
     gender  |-> IF TruthyStr(info.gender) THEN info.gender ELSE None]

NoLabel == [emotion |-> None, age |-> None, gender |-> None]

\* lines 159 and 170-174: the rectangle, then the label strip and text if any.
Draw(img, info) ==
    LET rect == [op |-> "rectangle", box |-> info.box, text |-> NoLabel]
        text == [op |-> "label", box |-> info.box, text |-> Label(info)]
    IN  [img EXCEPT !.drawn =
            IF Label(info) = NoLabel THEN Append(@, rect)
            ELSE Append(Append(@, rect), text)]

InputAfterDrawAliased(img, info) == Draw(img, info)

\* lines 92 and 159-174: every drawing call is given result_img, the copy made
\* at line 92, so the caller's buffer is what it was.
InputAfterDraw(img, info) == img

\* What DeepFace.analyze(face_img, actions=['emotion']) may do.
EmotionOutcomes ==
    { [kind |-> "ok", emotion |-> "happy"],
      [kind |-> "empty", emotion |-> ""],
      [kind |-> "raise", emotion |-> ""] }

\* What DeepFace.analyze(face_img, actions=['age', 'gender']) may do; "partial"
\* is a record with 'age' but without 'dominant_gender' (KeyError at line 152).
AgeGenderOutcomes ==
    { [kind |-> "ok", age |-> 30, gender |-> "Man"],
      [kind |-> "ok", age |-> 0, gender |-> "Woman"],
      [kind |-> "empty", age |-> 0, gender |-> ""],
      [kind |-> "raise", age |-> 0, gender |-> ""],
      [kind |-> "partial", age |-> 30, gender |-> ""] }

FewEmotionOutcomes == { o \in EmotionOutcomes : o.kind \in {"ok", "raise"} }

FewAgeGenderOutcomes ==
    { o \in AgeGenderOutcomes : o.kind = "raise" \/ (o.kind = "ok" /\ o.age = 30) }

NewFaceDataKept(old) == old

\* line 93: face_data = []
NewFaceData(old) == <<>>

Event(op, arg, idx, out) == [op |-> op, arg |-> arg, idx |-> idx, out |-> out]

-----------------------------------------------------------------------------
(* State machine *)

NoImage == [h |-> 0, w |-> 0, px |-> "", drawn |-> <<>>]
NoFace  == [box |-> <<0, 0, 0, 0>>, confidence |-> 0,
            emotion |-> None, age |-> None, gender |-> None]

\* lines 18-22: self.face_cascade is None exactly when the load raised
CascadeAfterLoad(outcome) == outcome # "raise"

\* nothing probed yet
NotProbed == [deepface |-> "none", cascade |-> "none", torch |-> "none"]

\* no previous call is kept
NoHistory == [status |-> "none", image |-> NoImage, raw |-> <<>>,
              face_data |-> <<>>, log |-> <<>>,
              before |-> <<FALSE, FALSE>>, start |-> <<FALSE, FALSE>>]

Init ==
    /\ pc = "unloaded"
    /\ DEEPFACE_AVAILABLE = FALSE
    /\ face_cascade = FALSE
    /\ torch_available = FALSE
    /\ emotion_model_loaded = FALSE
    /\ age_gender_model_loaded = FALSE
    /\ image = NoImage
    /\ result_img = NoImage
    /\ face_data = <<>>
    /\ raw = <<>>
    /\ boxes = <<>>
    /\ scores = <<>>
    /\ i = 0
    /\ face_info = NoFace
    /\ log = <<>>
    /\ probe = NotProbed
    /\ prev = NoHistory
    /\ pc2 = "off"

\* lines 8-13: "from deepface import DeepFace" under "except ImportError".
\* Any other exception leaves the module unloaded (pc = "import_raised").
ImportModule ==
    /\ pc = "unloaded"
    /\ \E outcome \in {"ok", "ImportError", "OtherError"} :
          /\ DEEPFACE_AVAILABLE' = (outcome = "ok")
          /\ pc' = IF outcome = "OtherError" THEN "import_raised" ELSE "imported"
          /\ probe' = [probe EXCEPT !.deepface = outcome]
    /\ UNCHANGED <<face_cascade, torch_available, flags, locals, prev, pc2>>

\* __init__, lines 16-40. Building the classifier either works, raises (the
\* path expression or the constructor), or, for an asset that cannot be read,
\* hands back an empty classifier without raising ("silent"): only an
\* exception sets self.face_cascade to None.
Construct ==
    /\ pc = "imported"
    /\ \E cascade \in {"ok", "raise", "silent"}, torch \in {"ok", "raise"} :
          /\ face_cascade' = CascadeAfterLoad(cascade)
          /\ torch_available' = (torch = "ok")
          /\ probe' = [probe EXCEPT !.cascade = cascade, !.torch = torch]
    /\ emotion_model_loaded' = FALSE
    /\ age_gender_model_loaded' = FALSE
    /\ pc' = "idle"
    /\ UNCHANGED <<DEEPFACE_AVAILABLE, locals, prev, pc2>>

\* detect_faces entry, lines 92-93. A call may follow a return or a raise:
\* the instance stays usable.
BeginCall(img, history) ==
    /\ pc \in {"idle", "returned", "raised"}
    /\ image' = img
    /\ result_img' = img                            \* image.copy()
    /\ face_data' = NewFaceData(face_data)
    /\ raw' = <<>>
    /\ boxes' = <<>>
    /\ scores' = <<>>
    /\ i' = 0
    /\ face_info' = NoFace
    /\ log' = <<>>
    /\ pc' = "select"
    /\ prev' = history
    /\ UNCHANGED <<capability, flags, probe, pc2>>

CallDetectFaces == \E img \in Images : BeginCall(img, prev)

\* The call that is ending as its caller saw it, with the ready flags at its
\* start ("before") and at the start of the call that follows ("start").
LastCall ==
    [status    |-> IF pc = "idle" THEN "none" ELSE pc,
     image     |-> image,
     raw       |-> raw,
     face_data |-> face_data,
     log       |-> log,
     before    |-> prev.start,
     start     |-> <<emotion_model_loaded, age_gender_model_loaded>>]

\* the same entry, with the previous call kept for comparison
CallDetectFacesAgain == \E img \in Images : BeginCall(img, LastCall)

\* lines 96-106: inference of the learned detector succeeds.
DetectTorchFrom(predictions) ==
    /\ pc = "select"
    /\ SelectDetector(torch_available, face_cascade) = "learned"
    /\ \E pred \in predictions :
          /\ raw' = pred
          /\ boxes' = [k \in 1..Len(FilterPrediction(pred)) |-> FilterPrediction(pred)[k].box]
          /\ scores' = [k \in 1..Len(FilterPrediction(pred)) |-> FilterPrediction(pred)[k].score]
    /\ log' = Append(log, Event("detect", "learned", 0, "ok"))
    /\ pc' = "ensure"
    /\ UNCHANGED <<capability, flags, image, result_img, face_data, i, face_info>>
    /\ UNCHANGED others

DetectTorch == DetectTorchFrom(TorchPredictions)

DetectTorchFew == DetectTorchFrom(FewPredictions)

\* lines 98-102: to_tensor or self.model([img_tensor]) raises; nothing catches it.
DetectTorchRaises ==
    /\ pc = "select"
    /\ SelectDetector(torch_available, face_cascade) = "learned"
    /\ log' = Append(log, Event("detect", "learned", 0, "raise"))
    /\ pc' = "raised"
    /\ UNCHANGED <<capability, flags, image, result_img, face_data, raw, boxes, scores,
                   i, face_info>>
    /\ UNCHANGED others

\* lines 107-109: the cascade detector succeeds.
DetectOpenCV ==
    /\ pc = "select"
    /\ SelectDetector(torch_available, face_cascade) = "cascade"
    /\ probe.cascade = "ok"              \* an empty classifier only raises
    /\ \E faces \in CascadeFaces :
          LET det == DetectFacesOpenCV(faces)
          IN  /\ raw' = det
              /\ boxes' = [k \in 1..Len(det) |-> det[k].box]
              /\ scores' = [k \in 1..Len(det) |-> det[k].score]
    /\ log' = Append(log, Event("detect", "cascade", 0, "ok"))
    /\ pc' = "ensure"
    /\ UNCHANGED <<capability, flags, image, result_img, face_data, i, face_info>>
    /\ UNCHANGED others

\* lines 68-69: cvtColor or detectMultiScale raises; nothing catches it.
DetectOpenCVRaises ==
    /\ pc = "select"
    /\ SelectDetector(torch_available, face_cascade) = "cascade"
    /\ log' = Append(log, Event("detect", "cascade", 0, "raise"))
    /\ pc' = "raised"
    /\ UNCHANGED <<capability, flags, image, result_img, face_data, raw, boxes, scores,
                   i, face_info>>
    /\ UNCHANGED others

\* lines 110-112
NoDetection ==
    /\ pc = "select"
    /\ SelectDetector(torch_available, face_cascade) = "none"
    /\ face_data' = <<>>                               \* "return result_img, []"
    /\ pc' = "returned"
    /\ UNCHANGED <<capability, flags, image, result_img, raw, boxes, scores, i,
                   face_info, log>>
    /\ UNCHANGED others

\* lines 114-116 and 42-47: skip the provisioner or start a warm-up round.
\* (The probe image of line 51 is a constant and takes no part in the state;
\* i is set for the loop of line 118, which follows on every path.)
EnsureModelsLoaded ==
    /\ pc = "ensure"
    /\ pc' = IF NeedsWarmup(DEEPFACE_AVAILABLE, emotion_model_loaded,
                            age_gender_model_loaded)
             THEN "warm_emotion" ELSE "loop"
    /\ i' = 1
    /\ UNCHANGED <<capability, flags, image, result_img, face_data, raw, boxes,
                   scores, face_info, log>>
    /\ UNCHANGED others

\* lines 52-56
WarmEmotion ==
    /\ pc = "warm_emotion"
    /\ \E ok \in BOOLEAN :
          /\ log' = Append(log, Event("warmup", "emotion", 0,
                                      IF ok THEN "ok" ELSE "raise"))
          /\ emotion_model_loaded' = FlagAfterWarmup(emotion_model_loaded, ok)
          /\ pc' = AfterEmotionWarmup(ok)
    /\ UNCHANGED <<capability, age_gender_model_loaded, image, result_img, face_data,
                   raw, boxes, scores, i, face_info>>
    /\ UNCHANGED others

\* lines 58-62
WarmAgeGender ==
    /\ pc = "warm_age_gender"
    /\ \E ok \in BOOLEAN :
          /\ log' = Append(log, Event("warmup", "age_gender", 0,
                                      IF ok THEN "ok" ELSE "raise"))
          /\ age_gender_model_loaded' = FlagAfterWarmup(age_gender_model_loaded, ok)
    /\ pc' = "loop"
    /\ UNCHANGED <<capability, emotion_model_loaded, image, result_img, face_data,
                   raw, boxes, scores, i, face_info>>
    /\ UNCHANGED others

\* line 118 exhausted, line 176
Return ==
    /\ pc = "loop"
    /\ i > Len(boxes)
    /\ pc' = "returned"
    /\ UNCHANGED <<capability, flags, locals>>
    /\ UNCHANGED others

\* lines 118-129: the crop is empty or too small, "continue".
SkipSmall ==
    /\ pc = "loop"
    /\ i <= Len(boxes)
    /\ TooSmall(Crop(image, PixelBox(boxes[i], torch_available)))
    /\ i' = i + 1
    /\ UNCHANGED <<pc, capability, flags, image, result_img, face_data, raw, boxes,
                   scores, face_info, log>>
    /\ UNCHANGED others

\* lines 118-140: the record is created with its box and confidence.
BeginFace ==
    /\ pc = "loop"
    /\ i <= Len(boxes)
    /\ ~TooSmall(Crop(image, PixelBox(boxes[i], torch_available)))
    /\ face_info' = [box        |-> PixelBox(boxes[i], torch_available),
                     confidence |-> Confidence(scores[i]),
                     emotion    |-> None,
                     age        |-> None,
                     gender     |-> None]
    /\ pc' = IF DEEPFACE_AVAILABLE THEN "emotion" ELSE "append"
    /\ UNCHANGED <<capability, flags, image, result_img, face_data, raw, boxes,
                   scores, i, log>>
    /\ UNCHANGED others

\* lines 143-146, and line 153 when the call raises
AnalyzeEmotionFrom(outcomes) ==
    /\ pc = "emotion"
    /\ IF ~RunsAnalysis(emotion_model_loaded)
       THEN /\ pc' = "age_gender"
            /\ UNCHANGED <<face_info, log>>
       ELSE \E out \in outcomes :
               /\ log' = Append(log, Event("analyze", "emotion", i, out.kind))
               /\ face_info' = IF out.kind = "ok"
                               THEN [face_info EXCEPT !.emotion = Some(out.emotion)]
                               ELSE face_info
               /\ pc' = IF out.kind = "raise" THEN OnAnalysisError ELSE "age_gender"
    /\ UNCHANGED <<capability, flags, image, result_img, face_data, raw, boxes,
                   scores, i>>
    /\ UNCHANGED others

AnalyzeEmotion == AnalyzeEmotionFrom(EmotionOutcomes)

AnalyzeEmotionFew == AnalyzeEmotionFrom(FewEmotionOutcomes)

\* lines 148-152, and line 153 when the call or the record access raises
AnalyzeAgeGenderFrom(outcomes) ==
    /\ pc = "age_gender"
    /\ IF ~RunsAnalysis(age_gender_model_loaded)
       THEN /\ pc' = "append"
            /\ UNCHANGED <<face_info, log>>
       ELSE \E out \in outcomes :
               /\ log' = Append(log, Event("analyze", "age_gender", i, out.kind))
               /\ face_info' =
                     CASE out.kind = "ok" ->
                            [face_info EXCEPT !.age = Some(out.age),
                                              !.gender = Some(out.gender)]
                       [] out.kind = "partial" ->
                            [face_info EXCEPT !.age = Some(out.age)]
                       [] OTHER -> face_info
               /\ pc' = IF out.kind \in {"raise", "partial"}
                        THEN OnAnalysisError ELSE "append"
    /\ UNCHANGED <<capability, flags, image, result_img, face_data, raw, boxes,
                   scores, i>>
    /\ UNCHANGED others

AnalyzeAgeGender == AnalyzeAgeGenderFrom(AgeGenderOutcomes)

AnalyzeAgeGenderFew == AnalyzeAgeGenderFrom(FewAgeGenderOutcomes)

\* lines 156-174
AppendAndDraw ==
    /\ pc = "append"
    /\ face_data' = AppendFace(face_data, face_info)
    /\ result_img' = Draw(result_img, face_info)
    /\ image' = InputAfterDraw(image, face_info)
    /\ i' = i + 1
    /\ pc' = "loop"
    /\ UNCHANGED <<capability, flags, raw, boxes, scores, face_info, log>>
    /\ UNCHANGED others



Next ==
    \/ ImportModule
    \/ Construct
    \/ CallDetectFaces
    \/ DetectTorch
    \/ DetectTorchRaises
    \/ DetectOpenCV
    \/ DetectOpenCVRaises
    \/ NoDetection
    \/ EnsureModelsLoaded
    \/ WarmEmotion
    \/ WarmAgeGender
    \/ Return
    \/ SkipSmall
    \/ BeginFace
    \/ AnalyzeEmotion
    \/ AnalyzeAgeGender
    \/ AppendAndDraw

Spec == Init /\ [][Next]_vars

-----------------------------------------------------------------------------
(* Two calls compared. The instance is constructed with the analysis       *)
(* service and the learned detector available; every call keeps the call   *)
(* before it in prev.                                                      *)

InitConstructed ==
    /\ pc = "idle"
    /\ DEEPFACE_AVAILABLE = TRUE
    /\ face_cascade = TRUE
    /\ torch_available = TRUE
    /\ emotion_model_loaded = FALSE
    /\ age_gender_model_loaded = FALSE
    /\ image = NoImage
    /\ result_img = NoImage
    /\ face_data = <<>>
    /\ raw = <<>>
    /\ boxes = <<>>
    /\ scores = <<>>
    /\ i = 0
    /\ face_info = NoFace
    /\ log = <<>>
    /\ probe = [deepface |-> "ok", cascade |-> "ok", torch |-> "ok"]
    /\ prev = NoHistory

InitTwoCalls == InitConstructed /\ pc2 = "off"

NextTwoCalls ==
    \/ CallDetectFacesAgain
    \/ DetectTorchFew
    \/ DetectTorchRaises
    \/ EnsureModelsLoaded
    \/ WarmEmotion
    \/ WarmAgeGender
    \/ Return
    \/ SkipSmall
    \/ BeginFace
    \/ AnalyzeEmotionFew
    \/ AnalyzeAgeGenderFew
    \/ AppendAndDraw

SpecTwoCalls == InitTwoCalls /\ [][NextTwoCalls]_vars

-----------------------------------------------------------------------------
(* Two callers of one instance. The second caller runs the same            *)
(* detect_faces; what it keeps in its own locals (its image, detections    *)
(* and records) touches nothing shared and is not tracked: its steps are   *)
(* the entry, the provisioner of lines 42-64 on the shared flags, and the  *)
(* rest of the call. Nothing in the class takes a lock.                    *)

firstCaller == <<pc, capability, locals, probe, prev>>

\* lines 80-112 of the second call, up to the provisioner
SecondCall ==
    /\ pc2 = "idle"
    /\ pc2' = "ensure"
    /\ UNCHANGED <<firstCaller, flags>>

\* lines 114-116 and 42-47 of the second call
SecondEnsureModelsLoaded ==
    /\ pc2 = "ensure"
    /\ pc2' = IF NeedsWarmup(DEEPFACE_AVAILABLE, emotion_model_loaded,
                             age_gender_model_loaded)
              THEN "warm_emotion" ELSE "loop"
    /\ UNCHANGED <<firstCaller, flags>>

\* lines 52-56 of the second call
SecondWarmEmotion ==
    /\ pc2 = "warm_emotion"
    /\ \E ok \in BOOLEAN :
          /\ emotion_model_loaded' = FlagAfterWarmup(emotion_model_loaded, ok)
          /\ pc2' = AfterEmotionWarmup(ok)
    /\ UNCHANGED <<firstCaller, age_gender_model_loaded>>

\* lines 58-62 of the second call
SecondWarmAgeGender ==
    /\ pc2 = "warm_age_gender"
    /\ \E ok \in BOOLEAN :
          age_gender_model_loaded' = FlagAfterWarmup(age_gender_model_loaded, ok)
    /\ pc2' = "loop"
    /\ UNCHANGED <<firstCaller, emotion_model_loaded>>

\* lines 118-176 of the second call
SecondReturn ==
    /\ pc2 = "loop"
    /\ pc2' = "idle"
    /\ UNCHANGED <<firstCaller, flags>>

InitConcurrent == InitConstructed /\ pc2 = "idle"

NextConcurrent ==
    \/ CallDetectFaces
    \/ DetectTorchFew
    \/ DetectTorchRaises
    \/ EnsureModelsLoaded
    \/ WarmEmotion
    \/ WarmAgeGender
    \/ Return
    \/ SkipSmall
    \/ BeginFace
    \/ AnalyzeEmotionFew
    \/ AnalyzeAgeGenderFew
    \/ AppendAndDraw
    \/ SecondCall
    \/ SecondEnsureModelsLoaded
    \/ SecondWarmEmotion
    \/ SecondWarmAgeGender
    \/ SecondReturn

SpecConcurrent == InitConcurrent /\ [][NextConcurrent]_vars

-----------------------------------------------------------------------------
(* Vocabulary of the properties *)

\* a detect_faces call is running or has ended
InCall == pc \in {"select", "ensure", "warm_emotion", "warm_age_gender", "loop",
                  "emotion", "age_gender", "append", "returned", "raised"}

\* the detector has been chosen and invoked (or found absent)
PastSelect == InCall /\ pc # "select"

Constructed == pc \notin {"unloaded", "imported", "import_raised"}

EventsWhere(op, arg) == SelectSeq(log, LAMBDA e : e.op = op /\ e.arg = arg)
FaceEvents(arg, idx) ==
    SelectSeq(log, LAMBDA e : e.op = "analyze" /\ e.arg = arg /\ e.idx = idx)
HasOutcome(evs, kinds) == \E n \in 1..Len(evs) : evs[n].out \in kinds

\* the boxes of the rectangles drawn on an image, in drawing order
RectBoxes(img) ==
    LET rects == SelectSeq(img.drawn, LAMBDA d : d.op = "rectangle")
    IN  [k \in 1..Len(rects) |-> rects[k].box]

FaceBoxes == [k \in 1..Len(face_data) |-> face_data[k].box]

\* indices of the filtered boxes whose crop is large enough, in list order
KeptIndices ==
    SelectSeq([j \in 1..Len(boxes) |-> j],
              LAMBDA j : ~TooSmall(Crop(image, PixelBox(boxes[j], torch_available))))

-----------------------------------------------------------------------------
(* C1: detect_faces never raises, whatever external call fails during the  *)
(* call: no call ever ends with an exception crossing its boundary.        *)
C1_NeverRaises == pc # "raised"

(* C2: each call uses exactly one detection strategy fixed by the          *)
(* capability state: the learned detector if ready, else the cascade       *)
(* detector if ready, else none; the cascade detector is never invoked in  *)
(* a call where the learned detector is ready.                             *)
C2_OneStrategy ==
    LET learned == EventsWhere("detect", "learned")
        cascade == EventsWhere("detect", "cascade")
    IN  /\ Len(cascade) > 0 => ~torch_available /\ face_cascade
        /\ Len(learned) > 0 => torch_available
        /\ PastSelect =>
              /\ Len(learned) = (IF torch_available THEN 1 ELSE 0)
              /\ Len(cascade) = (IF ~torch_available /\ face_cascade THEN 1 ELSE 0)

C2_Witness ==
    /\ pc = "returned"
    /\ torch_available /\ face_cascade
    /\ Len(EventsWhere("detect", "learned")) = 1
    /\ Len(face_data) > 0

(* C3: with neither detector available a call does not raise and returns   *)
(* an image equal to the input together with an empty faces list.          *)
C3_NoCapability ==
    (InCall /\ ~torch_available /\ ~face_cascade) =>
        /\ pc # "raised"
        /\ pc = "returned" => (result_img = image /\ face_data = <<>>)

C3_Witness ==
    /\ pc = "returned"
    /\ ~torch_available /\ ~face_cascade
    /\ image \in Images
    /\ result_img = image

(* C4: with the learned detector available every returned face has         *)
(* confidence > 0.7; with only the cascade detector available every        *)
(* returned face has confidence 1.0.                                       *)
C4_Confidence ==
    \A k \in 1..Len(face_data) :
        /\ torch_available => face_data[k].confidence > 70
        /\ (~torch_available /\ face_cascade) => face_data[k].confidence = 100

C4_Witness ==
    /\ pc = "returned"
    /\ torch_available
    /\ Len(raw) = 2 /\ raw[1].score = 70 /\ raw[2].score = 71
    /\ raw[1].box = raw[2].box
    /\ Len(face_data) = 1

(* C5: every returned face has a box at least 20 pixels wide and 20 pixels *)
(* high; a detection whose crop is empty or less than 20 wide or high is   *)
(* not in faces and has no rectangle drawn.                                *)
C5_MinSize ==
    /\ \A k \in 1..Len(face_data) :
          LET b == face_data[k].box
          IN  /\ b[3] - b[1] >= 20 /\ b[4] - b[2] >= 20
              /\ Crop(image, b).rows >= 20 /\ Crop(image, b).cols >= 20
    /\ RectBoxes(result_img) = FaceBoxes
    /\ pc = "returned" => Len(face_data) = Len(KeptIndices)

C5_Witness ==
    /\ pc = "returned"
    /\ Len(boxes) = 2
    /\ Crop(image, PixelBox(boxes[1], torch_available)).cols \in 1..19
    /\ Crop(image, PixelBox(boxes[2], torch_available)).cols = 0
    /\ face_data = <<>>
    /\ result_img.drawn = <<>>

C7_NoAnalysisService ==
    (Constructed /\ ~DEEPFACE_AVAILABLE) =>
        /\ \A k \in 1..Len(face_data) :
              /\ face_data[k].emotion = None
              /\ face_data[k].age = None
              /\ face_data[k].gender = None
        /\ \A n \in 1..Len(log) : log[n].op \notin {"warmup", "analyze"}

C7_Witness ==
    /\ pc = "returned"
    /\ ~DEEPFACE_AVAILABLE
    /\ Len(face_data) = 2
    /\ log # <<>>

(* C8: an exception of one face's analysis is caught for that face alone:  *)
(* the face is still returned with its box and confidence, the loop goes   *)
(* on, and every face's record is decided by its own detection and its own *)
(* analysis outcomes only.                                                 *)
C8_PerFaceFailure ==
    (pc = "returned" /\ DEEPFACE_AVAILABLE) =>
        /\ Len(face_data) = Len(KeptIndices)
        /\ \A k \in 1..Len(KeptIndices) :
              LET j == KeptIndices[k]
                  f == face_data[k]
                  emo == FaceEvents("emotion", j)
                  ag == FaceEvents("age_gender", j)
              IN  /\ f.box = PixelBox(boxes[j], torch_available)
                  /\ f.confidence = scores[j]
                  /\ Len(emo) = (IF emotion_model_loaded THEN 1 ELSE 0)
                  /\ Len(ag) = (IF age_gender_model_loaded /\ ~HasOutcome(emo, {"raise"})
                                THEN 1 ELSE 0)
                  /\ f.emotion # None <=> HasOutcome(emo, {"ok"})
                  /\ f.age # None <=> HasOutcome(ag, {"ok", "partial"})
                  /\ f.gender # None <=> HasOutcome(ag, {"ok"})

C8_Witness ==
    /\ pc = "returned"
    /\ DEEPFACE_AVAILABLE
    /\ Len(face_data) = 2
    /\ HasOutcome(FaceEvents("emotion", 1), {"raise"})
    /\ face_data[1].emotion = None
    /\ face_data[1].confidence > 0
    /\ face_data[2].emotion # None
    /\ face_data[2].age # None

(* C9: after construction the only changes of the capability state are     *)
(* the two ready flags going from false to true: no flag returns to false  *)
(* and the three availabilities never change.                              *)
C9_CapabilityMonotone ==
    [][Constructed =>
          /\ capability' = capability
          /\ emotion_model_loaded => emotion_model_loaded'
          /\ age_gender_model_loaded => age_gender_model_loaded']_vars

C9_Witness ==
    /\ pc = "returned"
    /\ emotion_model_loaded
    /\ ~age_gender_model_loaded
    /\ HasOutcome(EventsWhere("warmup", "emotion"), {"raise"})

(* C10: a warm-up of a group is attempted only if that group's ready flag  *)
(* is false when the provisioner runs; a ready group is never warmed up    *)
(* again, also while the other group is pending.                           *)
C10_WarmupOnlyIfPending ==
    [][/\ Len(EventsWhere("warmup", "emotion")') > Len(EventsWhere("warmup", "emotion"))
          => ~emotion_model_loaded
       /\ Len(EventsWhere("warmup", "age_gender")') > Len(EventsWhere("warmup", "age_gender"))
          => ~age_gender_model_loaded]_vars

(* C11: a failed warm-up of one group leaves that group's flag as it was   *)
(* (false for a pending group), raises nothing, and does not block the     *)
(* other group: the age/gender warm-up is attempted after the emotion      *)
(* warm-up whatever its outcome, and a successful warm-up sets its flag    *)
(* whatever the outcome of the other.                                      *)
C11_WarmupFailureIsolated ==
    [][LET emoBefore == EventsWhere("warmup", "emotion")
           agBefore  == EventsWhere("warmup", "age_gender")
           emoAfter  == EventsWhere("warmup", "emotion")'
           agAfter   == EventsWhere("warmup", "age_gender")'
           emoTried  == Len(emoAfter) = Len(emoBefore) + 1
           agTried   == Len(agAfter) = Len(agBefore) + 1
       IN  /\ emoTried =>
                 /\ pc' = "warm_age_gender"
                 /\ emoAfter[Len(emoAfter)].out = "raise"
                       => emotion_model_loaded' = emotion_model_loaded
                 /\ emoAfter[Len(emoAfter)].out = "ok" => emotion_model_loaded'
           /\ pc = "warm_age_gender" => agTried
           /\ agTried =>
                 /\ Len(emoBefore) = 1
                 /\ pc' = "loop"
                 /\ agAfter[Len(agAfter)].out = "raise"
                       => age_gender_model_loaded' = age_gender_model_loaded
                 /\ agAfter[Len(agAfter)].out = "ok" => age_gender_model_loaded'
                 /\ emotion_model_loaded' = emotion_model_loaded]_vars

C11_Witness ==
    /\ pc = "returned"
    /\ EventsWhere("warmup", "emotion") = <<Event("warmup", "emotion", 0, "raise")>>
    /\ EventsWhere("warmup", "age_gender") = <<Event("warmup", "age_gender", 0, "ok")>>
    /\ ~emotion_model_loaded
    /\ age_gender_model_loaded

(* C12: warm-up is retried in every call while a flag is false: a call    *)
(* that got past the provisioner with the analysis service available and  *)
(* a group's flag false at its start has attempted that group's warm-up;   *)
(* and when the emotion warm-up of a pending group failed in one call and  *)
(* succeeded in the next, the faces of the first call have emotion None    *)
(* and, in the second call, the emotion analysis of every retained face    *)
(* is run and every face on which it succeeded has a non-null emotion.     *)
C12_RetryEveryCall ==
    LET pastProvisioner == pc \in {"loop", "emotion", "age_gender", "append", "returned"}
        emoWarm == EventsWhere("warmup", "emotion")
        agWarm  == EventsWhere("warmup", "age_gender")
        prevEmoWarm == SelectSeq(prev.log,
                           LAMBDA e : e.op = "warmup" /\ e.arg = "emotion")
    IN  /\ (pastProvisioner /\ DEEPFACE_AVAILABLE /\ ~prev.start[1]) => Len(emoWarm) = 1
        /\ (pastProvisioner /\ DEEPFACE_AVAILABLE /\ ~prev.start[2]) => Len(agWarm) = 1
        /\ ( /\ pc = "returned"
             /\ prev.status = "returned"
             /\ ~prev.before[1]
             /\ HasOutcome(prevEmoWarm, {"raise"})
             /\ HasOutcome(emoWarm, {"ok"}) ) =>
                /\ \A k \in 1..Len(prev.face_data) : prev.face_data[k].emotion = None
                /\ Len(face_data) = Len(KeptIndices)
                /\ \A k \in 1..Len(KeptIndices) :
                      LET emo == FaceEvents("emotion", KeptIndices[k])
                      IN  /\ Len(emo) = 1
                          /\ emo[1].out = "ok" => face_data[k].emotion # None

C12_Witness ==
    /\ pc = "returned"
    /\ prev.status = "returned"
    /\ ~prev.before[1]
    /\ HasOutcome(SelectSeq(prev.log, LAMBDA e : e.op = "warmup" /\ e.arg = "emotion"),
                  {"raise"})
    /\ HasOutcome(EventsWhere("warmup", "emotion"), {"ok"})
    /\ Len(prev.face_data) = 1 /\ prev.face_data[1].emotion = None
    /\ Len(face_data) = 1 /\ face_data[1].emotion # None
    /\ image = prev.image

(* C13: idempotence. On an instance whose two flags were set before the    *)
(* first of two calls, with the same image, the same detector output and   *)
(* an analysis backend that answers the same on the same face, the second  *)
(* call returns the faces of the first and changes no flag.                *)
C13_Idempotent ==
    LET sameBackend ==
            \A m \in 1..Len(log), n \in 1..Len(prev.log) :
                (/\ log[m].op = "analyze" /\ prev.log[n].op = "analyze"
                 /\ log[m].arg = prev.log[n].arg
                 /\ log[m].idx = prev.log[n].idx) => log[m].out = prev.log[n].out
    IN  ( /\ pc = "returned"
          /\ prev.status = "returned"
          /\ prev.before = <<TRUE, TRUE>>
          /\ image = prev.image
          /\ raw = prev.raw
          /\ sameBackend ) =>
             /\ face_data = prev.face_data
             /\ <<emotion_model_loaded, age_gender_model_loaded>> = prev.start
             /\ prev.start = prev.before

C13_Witness ==
    /\ pc = "returned"
    /\ prev.status = "returned"
    /\ prev.before = <<TRUE, TRUE>>
    /\ image = prev.image
    /\ raw = prev.raw
    /\ Len(face_data) = 1
    /\ face_data = prev.face_data
    /\ face_data[1].emotion # None /\ face_data[1].age # None
    /\ log = prev.log

(* C14: detect_faces never changes its input image: drawing goes to the    *)
(* working copy, the input is the same at every step of the call, and when *)
(* no face is retained the returned image equals the input.                *)
C14_InputUntouched ==
    [][/\ (InCall /\ InCall' /\ pc' # "select") => image' = image
       /\ (pc' = "returned" /\ face_data' = <<>>) => result_img' = image'
       /\ InCall' => image' \in Images]_vars

C14_Witness ==
    /\ pc = "returned"
    /\ Len(face_data) = 2
    /\ Len(result_img.drawn) >= 2
    /\ image \in Images

(* C15: loading the module and constructing the pipeline never raise, and  *)
(* after construction each capability is available exactly when its own    *)
(* probe did not fail, for every combination of probe outcomes.            *)
C15_ProbesIndependent ==
    /\ pc # "import_raised"
    /\ Constructed =>
          /\ DEEPFACE_AVAILABLE = (probe.deepface = "ok")
          /\ face_cascade = (probe.cascade = "ok")
          /\ torch_available = (probe.torch = "ok")

(* C16: for every retained face the age+gender analysis is run whenever    *)
(* the analysis service is available and the age/gender flag is set, also  *)
(* when the emotion analysis of that face failed.                          *)
C16_AgeGenderAfterEmotionFailure ==
    (pc = "returned" /\ DEEPFACE_AVAILABLE /\ age_gender_model_loaded) =>
        \A k \in 1..Len(KeptIndices) :
            Len(FaceEvents("age_gender", KeptIndices[k])) = 1

(* C17: a failed age+gender analysis never leaves a record half filled: no *)
(* returned face has age set and gender null, or gender set and age null.  *)
C17_NoPartialOverwrite ==
    \A k \in 1..Len(face_data) :
        (face_data[k].age = None) <=> (face_data[k].gender = None)

(* C18: with two concurrent calls on one instance the check-and-warm-up    *)
(* step of a group is mutually exclusive: the two calls are never both     *)
(* inside the warm-up attempt of the same group, and no call is inside the *)
(* warm-up attempt of a group that the other call has already marked ready.*)
C18_WarmupMutuallyExclusive ==
    /\ ~(pc = "warm_emotion" /\ pc2 = "warm_emotion")
    /\ ~(pc = "warm_age_gender" /\ pc2 = "warm_age_gender")
    /\ (pc = "warm_emotion" \/ pc2 = "warm_emotion") => ~emotion_model_loaded
    /\ (pc = "warm_age_gender" \/ pc2 = "warm_age_gender") => ~age_gender_model_loaded

(* C19: a label is drawn for a retained face exactly when one of emotion,  *)
(* age, gender is non-null, and it holds exactly the non-null fields, in   *)
(* the order Emotion, Age, Gender (an age of 0 included).                  *)
C19_LabelHoldsNonNullFields ==
    LET labelled == SelectSeq(face_data,
                       LAMBDA f : f.emotion # None \/ f.age # None \/ f.gender # None)
        texts == SelectSeq(result_img.drawn, LAMBDA d : d.op = "label")
    IN  /\ Len(texts) = Len(labelled)
        /\ \A k \in 1..Len(texts) :
              /\ k <= Len(labelled)
              /\ texts[k].box = labelled[k].box
              /\ texts[k].text = [emotion |-> labelled[k].emotion,
                                  age     |-> labelled[k].age,
                                  gender  |-> labelled[k].gender]

(* C20: a face has non-null emotion only if the analysis service is        *)
(* available and the emotion flag is set, non-null age or gender only if   *)
(* the age/gender flag is set, and a group's per-face analysis is never    *)
(* invoked while that group's flag is false.                               *)
C20_EnrichmentNeedsReadyFlag ==
    [][LET emoCalled == Len(EventsWhere("analyze", "emotion")')
                           > Len(EventsWhere("analyze", "emotion"))
           agCalled  == Len(EventsWhere("analyze", "age_gender")')
                           > Len(EventsWhere("analyze", "age_gender"))
       IN  /\ emoCalled => DEEPFACE_AVAILABLE /\ emotion_model_loaded
           /\ agCalled => DEEPFACE_AVAILABLE /\ age_gender_model_loaded
           /\ \A k \in 1..Len(face_data') :
                 /\ face_data'[k].emotion # None
                       => DEEPFACE_AVAILABLE' /\ emotion_model_loaded'
                 /\ (face_data'[k].age # None \/ face_data'[k].gender # None)
                       => DEEPFACE_AVAILABLE' /\ age_gender_model_loaded']_vars

C20_Witness ==
    /\ pc = "returned"
    /\ emotion_model_loaded /\ ~age_gender_model_loaded
    /\ Len(face_data) = 2
    /\ face_data[1].emotion # None /\ face_data[2].emotion = None
    /\ face_data[1].age = None /\ face_data[1].gender = None

====
